---- MODULE Spec2Model ----
(***************************************************************************)
(* Model of plug-ins/rjMeshInfo.py: the function calculate with its two    *)
(* helpers triangleArea and prismVolume, the dependency-graph node         *)
(* meshInfo (MeshInfoNode) and the command polyVolume (MeshInfoCommand).   *)
(*                                                                         *)
(* Arithmetic is exact.  Coordinates are integers counted in steps of      *)
(* 1/Grid of a scene unit.  The code's 0.5 and /3.0 are kept out of the    *)
(* integers by carrying fixed denominators:                                *)
(*   an area   a of the code is held as  a * AreaDen    (AreaDen = 2 G^2)  *)
(*   a volume  v of the code is held as  v * VolumeDen  (VolumeDen = 6 G^3)*)
(* so triangleArea holds |shoelace| and prismVolume holds (z1+z2+z3)*area. *)
(***************************************************************************)
EXTENDS Integers, Sequences, FiniteSets

VARIABLES shape, translate, meshInfo, last, call, result, got

vars == <<shape, translate, meshInfo, last, call, result, got>>

----------------------------------------------------------------------------
(* Bounds of the model *)

\* coordinates are multiples of 1/Grid scene units
Grid == 2
\* the transform of pSolid1 moves it this many scene units along an axis,
\* either way
MaxShift == 1

AreaDen == 2 * Grid * Grid
VolumeDen == 6 * Grid * Grid * Grid

----------------------------------------------------------------------------
(* OpenMaya.MSpace values named by the two kSpaceMapping tables *)

kObject == 2
kWorld == 4

----------------------------------------------------------------------------
(* Vectors *)

Abs(x) == IF x < 0 THEN -x ELSE x

VAdd(p, q) == <<p[1] + q[1], p[2] + q[2], p[3] + q[3]>>
VSub(p, q) == <<p[1] - q[1], p[2] - q[2], p[3] - q[3]>>

Cross(u, v) ==
    <<u[2] * v[3] - u[3] * v[2],
      u[3] * v[1] - u[1] * v[3],
      u[1] * v[2] - u[2] * v[1]>>

Dot(u, v) == u[1] * v[1] + u[2] * v[2] + u[3] * v[3]

\* length of an integer vector (exact for every face of the catalogue)
Norm(c) ==
    CHOOSE r \in 0..(Abs(c[1]) + Abs(c[2]) + Abs(c[3])) :
        /\ r * r <= Dot(c, c)
        /\ (r + 1) * (r + 1) > Dot(c, c)

Det3(a, b, c) == Dot(a, Cross(b, c))

----------------------------------------------------------------------------
(* The meshes of the scene.  A mesh is its object-space points and its     *)
(* faces, each face the sequence of its vertex indices in winding order.   *)

Lo == 0 - (Grid \div 2)
Hi == Lo + Grid

CubePoints ==
    << <<Lo, Lo, Lo>>, <<Hi, Lo, Lo>>, <<Lo, Hi, Lo>>, <<Hi, Hi, Lo>>,
       <<Lo, Lo, Hi>>, <<Hi, Lo, Hi>>, <<Lo, Hi, Hi>>, <<Hi, Hi, Hi>> >>

\* the unit cube centred at the origin: 8 vertices, 6 outward quads
Cube ==
    [points |-> CubePoints,
     faces |-> << <<5, 6, 8, 7>>, <<1, 3, 4, 2>>, <<1, 2, 6, 5>>,
                  <<3, 7, 8, 4>>, <<1, 5, 7, 3>>, <<2, 4, 8, 6>> >>]

\* the same cube with every quad cut into two triangular faces
CubeTri ==
    [points |-> CubePoints,
     faces |-> << <<5, 6, 8>>, <<5, 8, 7>>, <<1, 3, 4>>, <<1, 4, 2>>,
                  <<1, 2, 6>>, <<1, 6, 5>>, <<3, 7, 8>>, <<3, 8, 4>>,
                  <<1, 5, 7>>, <<1, 7, 3>>, <<2, 4, 8>>, <<2, 8, 6>> >>]

\* the cube without its top face: an open mesh
OpenBox ==
    [points |-> CubePoints,
     faces |-> << <<1, 3, 4, 2>>, <<1, 2, 6, 5>>,
                  <<3, 7, 8, 4>>, <<1, 5, 7, 3>>, <<2, 4, 8, 6>> >>]

\* a tetrahedron with legs 3, 2, 1 on the axes; its slanted face has
\* area vector (2, 3, 6), of length 7
Tetra ==
    [points |-> << <<0, 0, 0>>, <<3 * Grid, 0, 0>>,
                   <<0, 2 * Grid, 0>>, <<0, 0, Grid>> >>,
     faces |-> << <<1, 3, 2>>, <<1, 2, 4>>, <<1, 4, 3>>, <<2, 3, 4>> >>]

BaseNames == {"cube", "cubeTri", "openBox", "tetra"}

BaseMesh(name) ==
    CASE name = "cube" -> Cube
      [] name = "cubeTri" -> CubeTri
      [] name = "openBox" -> OpenBox
      [] name = "tetra" -> Tetra

Reverse(s) == [i \in 1..Len(s) |-> s[Len(s) + 1 - i]]

\* every face wound the other way round, every point left in place
ReverseWinding(m) ==
    [points |-> m.points,
     faces |-> [f \in 1..Len(m.faces) |-> Reverse(m.faces[f])]]

Shapes == [base : BaseNames, reversed : BOOLEAN]

Flip(s) == [s EXCEPT !.reversed = ~s.reversed]

MeshOf(s) ==
    IF s.reversed THEN ReverseWinding(BaseMesh(s.base)) ELSE BaseMesh(s.base)

----------------------------------------------------------------------------
(* The scene: two mesh objects.  pCube1 is the unit cube under an identity *)
(* transform; pSolid1 carries the variable shape and a translation.        *)

Objects == {"pCube1", "pSolid1"}

Origin == <<0, 0, 0>>

Shifts == {0 - MaxShift, 0, MaxShift}

\* translations of pSolid1, in scene units: along all three axes, up or
\* down the Z axis
Translations == {<<Grid * k, 0 - Grid * k, Grid * k>> : k \in Shifts}

ShapeOf(o) ==
    IF o = "pCube1" THEN [base |-> "cube", reversed |-> FALSE] ELSE shape

TranslateOf(o) == IF o = "pCube1" THEN Origin ELSE translate

\* what OpenMaya hands to calculate for an object: a mesh and the
\* translation of its transform
Geometry(mesh, offset) == [mesh |-> mesh, offset |-> offset]

DagPath(o) == Geometry(MeshOf(ShapeOf(o)), TranslateOf(o))

----------------------------------------------------------------------------
(* OpenMaya.MItMeshPolygon, as calculate uses it.  A face is triangulated  *)
(* as a fan from its first vertex; points come in the space asked for.     *)

PointIn(obj, v, space) ==
    IF space = kWorld
    THEN VAdd(obj.mesh.points[v], obj.offset)
    ELSE obj.mesh.points[v]

NumFaces(obj) == Len(obj.mesh.faces)

\* iter.numTriangles
numTriangles(obj, f) == Len(obj.mesh.faces[f]) - 2

\* iter.getTriangle(triangle, points, indices, space), triangle from 0
getTriangle(obj, f, triangle, space) ==
    LET face == obj.mesh.faces[f]
    IN  <<PointIn(obj, face[1], space),
          PointIn(obj, face[triangle + 2], space),
          PointIn(obj, face[triangle + 3], space)>>

RECURSIVE Sum(_)
Sum(s) == IF Len(s) = 0 THEN 0 ELSE Head(s) + Sum(Tail(s))

TriangleNormal(t) == Cross(VSub(t[2], t[1]), VSub(t[3], t[1]))

\* the area vectors of the triangles of face f, in fan order
FanNormals(obj, f, space) ==
    [k \in 1..numTriangles(obj, f) |->
        TriangleNormal(getTriangle(obj, f, k - 1, space))]

\* iter.getNormal(normal, space): the face's area vector, which points the
\* way the unit normal does (only the sign of its Z is read)
getNormal(obj, f, space) ==
    LET N == FanNormals(obj, f, space)
    IN  <<Sum([k \in DOMAIN N |-> N[k][1]]),
          Sum([k \in DOMAIN N |-> N[k][2]]),
          Sum([k \in DOMAIN N |-> N[k][3]])>>

\* iter.getArea(areaPtr, space), times AreaDen
getArea(obj, f, space) ==
    LET N == FanNormals(obj, f, space)
    IN  Sum([k \in DOMAIN N |-> Norm(N[k])])

----------------------------------------------------------------------------
(* calculate, triangleArea, prismVolume *)

\* triangleArea without its abs
triangleAreaSigned(p1, p2, p3) ==
    p1[1] * (p3[2] - p2[2])
    + p2[1] * (p1[2] - p3[2])
    + p3[1] * (p2[2] - p1[2])

\* triangleArea without its * 0.5
triangleAreaNoHalf(p1, p2, p3) == 2 * Abs(triangleAreaSigned(p1, p2, p3))

\* abs(x1(y3-y2) + x2(y1-y3) + x3(y2-y1)) * 0.5, times AreaDen
triangleArea(p1, p2, p3) ==
    Abs(p1[1] * (p3[2] - p2[2])
        + p2[1] * (p1[2] - p3[2])
        + p3[1] * (p2[2] - p1[2]))

\* prismVolume that leaves the third point's Z out of the sum
prismVolumeTwoPoints(p1, p2, p3, area) == (p1[3] + p2[3]) * area

\* ((z1 + z2 + z3) / 3.0) * area, times VolumeDen
prismVolume(p1, p2, p3, area) == (p1[3] + p2[3] + p3[3]) * area

\* AddPrism that never subtracts
AddPrismNoFlip(volume, normal, pVolume) == volume + pVolume

\* AddPrism that subtracts for the normals that point up
AddPrismFlipped(volume, normal, pVolume) ==
    IF normal[3] > 0 THEN volume - pVolume ELSE volume + pVolume

\* if normal.z < 0: volume -= pVolume  else: volume += pVolume
AddPrism(volume, normal, pVolume) ==
    IF normal[3] < 0 THEN volume - pVolume ELSE volume + pVolume

\* for triangle in range(numTriangles): ...
RECURSIVE TriangleLoop(_, _, _, _, _, _)
TriangleLoop(obj, f, space, normal, triangle, acc) ==
    IF triangle >= numTriangles(obj, f)
    THEN acc
    ELSE LET points == getTriangle(obj, f, triangle, space)
             tArea == triangleArea(points[1], points[2], points[3])
             pVolume == prismVolume(points[1], points[2], points[3], tArea)
         IN  TriangleLoop(obj, f, space, normal, triangle + 1,
                 [acc EXCEPT !.volume = AddPrism(@, normal, pVolume),
                             !.triangleFetches = @ + 1])

\* if calculateVolume: ...
FaceVolume(obj, f, space, calculateVolume, acc) ==
    IF calculateVolume
    THEN TriangleLoop(obj, f, space, getNormal(obj, f, space), 0,
             [acc EXCEPT !.normalFetches = @ + 1])
    ELSE acc

\* FaceArea that fetches the face's area whether it is asked for or not
FaceAreaAlways(obj, f, space, calculateArea, acc) ==
    [acc EXCEPT !.area = IF calculateArea
                         THEN @ + getArea(obj, f, space) ELSE @,
                !.areaFetches = @ + 1]

\* if calculateArea: ...
FaceArea(obj, f, space, calculateArea, acc) ==
    IF calculateArea
    THEN [acc EXCEPT !.area = @ + getArea(obj, f, space),
                     !.areaFetches = @ + 1]
    ELSE acc

\* while not iter.isDone(): ... iter.next()
RECURSIVE FaceLoop(_, _, _, _, _, _)
FaceLoop(obj, space, calculateVolume, calculateArea, f, acc) ==
    IF f > NumFaces(obj)
    THEN acc
    ELSE FaceLoop(obj, space, calculateVolume, calculateArea, f + 1,
             FaceArea(obj, f, space, calculateArea,
                 FaceVolume(obj, f, space, calculateVolume, acc)))

\* the pair calculate returns, with the fetches it made on the iterator
calculate(obj, space, calculateVolume, calculateArea) ==
    FaceLoop(obj, space, calculateVolume, calculateArea, 1,
        [volume |-> 0, area |-> 0,
         normalFetches |-> 0, triangleFetches |-> 0, areaFetches |-> 0])

----------------------------------------------------------------------------
(* MeshInfoNode *)

\* kSpaceMapping with its two values swapped
NodeSpaceMappingSwapped(short) == IF short = 0 THEN kWorld ELSE kObject

\* MeshInfoNode.kSpaceMapping = {0:2, 1:4}
NodeSpaceMapping(short) == IF short = 0 THEN kObject ELSE kWorld

\* attributeAffects without the link from space to volume
attributeAffectsNoSpaceVolume ==
    {<<"inMesh", "volume">>, <<"inMesh", "area">>, <<"space", "area">>}

\* cls.attributeAffects(input, output)
attributeAffects ==
    {<<"inMesh", "volume">>, <<"space", "volume">>,
     <<"inMesh", "area">>, <<"space", "area">>}

\* the dependency graph marks dirty every output the changed input affects
MarkDirty(node, input) ==
    [node EXCEPT
        !.dirtyVolume = @ \/ <<input, "volume">> \in attributeAffects,
        !.dirtyArea = @ \/ <<input, "area">> \in attributeAffects]

\* no meshInfo node has been created
NoNode == [exists |-> FALSE]

\* a node as nodeInitializer's attributes make it: inMesh unconnected,
\* space = 1 (kWorld), both outputs 0.0 and not yet evaluated
NewNode ==
    [exists |-> TRUE, inMesh |-> "none", space |-> 1, volume |-> 0, area |-> 0,
     dirtyVolume |-> TRUE, dirtyArea |-> TRUE,
     setBy |-> "createNode"]

\* meshSrcHandle.type()
HandleType(inMesh) == IF inMesh \in Objects THEN "kMesh" ELSE "kInvalid"

\* calculate reads nothing but its arguments: its values on the scene's
\* geometries, computed once
Measured ==
    [obj \in {Geometry(MeshOf(s), t) : s \in Shapes, t \in Translations},
     space \in {kObject, kWorld},
     calculateVolume \in BOOLEAN, calculateArea \in BOOLEAN |->
        calculate(obj, space, calculateVolume, calculateArea)]

NoCall == [made |-> FALSE]

CallOf(by, o, space, calculateVolume, calculateArea) ==
    [made |-> TRUE, by |-> by, obj |-> o, space |-> space,
     calculateVolume |-> calculateVolume, calculateArea |-> calculateArea,
     ret |-> Measured[DagPath(o), space, calculateVolume, calculateArea]]

\* the call of calculate that compute makes, if it makes one
ComputeCall(node) ==
    IF HandleType(node.inMesh) = "kMesh"
    THEN CallOf("compute", node.inMesh, NodeSpaceMapping(node.space),
                TRUE, TRUE)
    ELSE NoCall

\* which output data.setClean(plug) cleans
SetClean(node, plug) ==
    [node EXCEPT
        !.dirtyVolume = IF plug = "volume" THEN FALSE ELSE @,
        !.dirtyArea = IF plug = "area" THEN FALSE ELSE @]

\* compute that leaves the outputs alone when the input holds no mesh
computeKeepsOutputs(node, plug) ==
    LET c == ComputeCall(node)
    IN  SetClean(
            IF c.made
            THEN [node EXCEPT !.volume = c.ret.volume, !.area = c.ret.area]
            ELSE node,
            plug)

\* MeshInfoNode.compute(plug, data)
compute(node, plug) ==
    LET c == ComputeCall(node)
        volume == IF c.made THEN c.ret.volume ELSE 0
        area == IF c.made THEN c.ret.area ELSE 0
    IN  SetClean([node EXCEPT !.volume = volume, !.area = area], plug)

IsDirty(node, plug) ==
    IF plug = "volume" THEN node.dirtyVolume ELSE node.dirtyArea

PlugValue(node, plug) == IF plug = "volume" THEN node.volume ELSE node.area

----------------------------------------------------------------------------
(* MeshInfoCommand *)

\* MeshInfoCommand.kSpaceMapping = {False:2, True:4}
CommandSpaceMapping(spaceBool) == IF spaceBool THEN kWorld ELSE kObject

\* spaceBool*1
TimesOne(spaceBool) == IF spaceBool THEN 1 ELSE 0

Flags == {"unset", "true", "false"}

\* spaceBool = True, replaced by the -ws argument when the flag is set
SpaceBool(worldSpace) == IF worldSpace = "unset" THEN TRUE ELSE worldSpace = "true"

\* ch = False, replaced by the -ch argument when the flag is set
HistoryBool(constructionHistory) ==
    IF constructionHistory = "unset" THEN FALSE ELSE constructionHistory = "true"

\* the selection lists a command can be given: no object, one, or two
Selections ==
    {<<>>} \cup {<<o>> : o \in Objects}
           \cup {s \in {<<o, p>> : o \in Objects, p \in Objects} :
                    s[1] # s[2]}

\* the invocations of the command; what doIt never reads of a rejected
\* invocation is left out
Invocations ==
    {[parseOk |-> FALSE, selection |-> <<>>,
      worldSpace |-> "unset", constructionHistory |-> "unset"]}
    \cup {[parseOk |-> TRUE, selection |-> s,
           worldSpace |-> "unset", constructionHistory |-> "unset"] :
             s \in {x \in Selections : Len(x) # 1}}
    \cup [parseOk : {TRUE}, selection : {x \in Selections : Len(x) = 1},
          worldSpace : Flags, constructionHistory : Flags]

\* ArgumentError without the check for more than one object
ArgumentErrorFirstOfMany(parseOk, selection) ==
    IF ~parseOk THEN "RuntimeError"
    ELSE IF Len(selection) = 0 THEN "RuntimeError"
    ELSE ""

\* how doIt ends before it reads a flag: "" when it goes on
ArgumentError(parseOk, selection) ==
    IF ~parseOk THEN "RuntimeError"
    ELSE IF Len(selection) = 0 THEN "RuntimeError"
    ELSE IF Len(selection) > 1 THEN "TypeError"
    ELSE ""

NoResult == [kind |-> "none", set |-> FALSE, value |-> 0]
NoRead == [made |-> FALSE]

\* the meshInfo node doIt creates, sets and connects
CommandNode(o, spaceBool, worldSpace) ==
    MarkDirty(
        MarkDirty(
            [NewNode EXCEPT
                !.space = TimesOne(spaceBool),
                !.inMesh = o,
                !.setBy = worldSpace],
            "space"),
        "inMesh")

----------------------------------------------------------------------------
(* The state machine *)

\* the shapes pSolid1 has in the scenes with meshInfo nodes
SceneShapes == {s \in Shapes : s.base \in {"openBox", "tetra"} /\ ~s.reversed}

\* meshInfo is the meshInfo node made last, if one was made: the nodes
\* share no state, and the ones made before it are followed no further
Init ==
    /\ shape \in SceneShapes
    /\ translate = Origin
    /\ meshInfo = NoNode
    /\ last = [op |-> "init"]
    /\ call = NoCall
    /\ result = NoResult
    /\ got = NoRead

\* the transform of pSolid1 is moved: its worldMesh output changes, and
\* with it the inMesh input of a node connected to it
Move(t) ==
    /\ t # translate
    /\ translate' = t
    /\ meshInfo' = IF meshInfo.exists /\ meshInfo.inMesh = "pSolid1"
                   THEN MarkDirty(meshInfo, "inMesh")
                   ELSE meshInfo
    /\ last' = [op |-> "move"]
    /\ call' = NoCall
    /\ result' = NoResult
    /\ got' = NoRead
    /\ UNCHANGED shape

\* calculate called from a script
Calculate(o, space, calculateVolume, calculateArea) ==
    /\ call' = CallOf("script", o, space, calculateVolume, calculateArea)
    /\ last' = [op |-> "calculate"]
    /\ result' = NoResult
    /\ got' = NoRead
    /\ UNCHANGED <<shape, translate, meshInfo>>

\* MeshInfoCommand.doIt
doIt(parseOk, selection, worldSpace, constructionHistory) ==
    LET error == ArgumentError(parseOk, selection)
        spaceBool == SpaceBool(worldSpace)
        spaceInt == CommandSpaceMapping(spaceBool)
        ch == HistoryBool(constructionHistory)
        o == selection[1]
    IN  /\ last' = [op |-> "doIt", error |-> error, parseOk |-> parseOk,
                    objects |-> Len(selection),
                    worldSpace |-> IF error = "" THEN worldSpace ELSE "unset",
                    history |-> error = "" /\ ch]
        /\ got' = NoRead
        /\ IF error # ""
           THEN /\ result' = [kind |-> error, set |-> FALSE, value |-> 0]
                /\ call' = NoCall
                /\ UNCHANGED meshInfo
           ELSE IF ~ch
           THEN /\ call' = CallOf("doIt", o, spaceInt, TRUE, FALSE)
                /\ result' = [kind |-> "float", set |-> TRUE,
                              value |-> call'.ret.volume]
                /\ UNCHANGED meshInfo
           ELSE /\ meshInfo' = CommandNode(o, spaceBool, worldSpace)
                /\ result' = [kind |-> "node", set |-> TRUE, value |-> 0]
                /\ call' = NoCall
        /\ UNCHANGED <<shape, translate>>

\* cmds.createNode("meshInfo")
CreateNode ==
    /\ meshInfo' = NewNode
    /\ last' = [op |-> "createNode"]
    /\ call' = NoCall
    /\ result' = NoResult
    /\ got' = NoRead
    /\ UNCHANGED <<shape, translate>>

\* cmds.connectAttr(mesh.worldMesh[0], node.inMesh), or its disconnection
\* (inMesh = "none")
ConnectAttr(inMesh) ==
    /\ meshInfo.exists
    /\ meshInfo.inMesh # inMesh
    /\ meshInfo' = MarkDirty([meshInfo EXCEPT !.inMesh = inMesh], "inMesh")
    /\ last' = [op |-> "connectAttr"]
    /\ call' = NoCall
    /\ result' = NoResult
    /\ got' = NoRead
    /\ UNCHANGED <<shape, translate>>

\* cmds.setAttr(node.space, short)
SetAttr(short) ==
    /\ meshInfo.exists
    /\ meshInfo.space # short
    /\ meshInfo' = MarkDirty(
                       [meshInfo EXCEPT !.space = short, !.setBy = "setAttr"],
                       "space")
    /\ last' = [op |-> "setAttr"]
    /\ call' = NoCall
    /\ result' = NoResult
    /\ got' = NoRead
    /\ UNCHANGED <<shape, translate>>

\* cmds.getAttr(node.volume) or cmds.getAttr(node.area): a dirty output is
\* computed before it is read
GetAttr(plug) ==
    /\ meshInfo.exists
    /\ LET dirty == IsDirty(meshInfo, plug)
           after == IF dirty THEN compute(meshInfo, plug) ELSE meshInfo
       IN  /\ meshInfo' = after
           /\ call' = IF dirty THEN ComputeCall(meshInfo) ELSE NoCall
           /\ last' = [op |-> "getAttr", plug |-> plug, computed |-> dirty,
                       zeroBefore |-> meshInfo.volume = 0 /\ meshInfo.area = 0]
           /\ got' = [made |-> TRUE, plug |-> plug,
                      value |-> PlugValue(after, plug)]
    /\ result' = NoResult
    /\ UNCHANGED <<shape, translate>>

\* the scene with a meshInfo node: the command, the node editing commands
\* and the reads of the outputs
Next ==
    \/ \E t \in Translations : Move(t)
    \/ \E i \in Invocations :
            doIt(i.parseOk, i.selection, i.worldSpace, i.constructionHistory)
    \/ CreateNode
    \/ \E inMesh \in Objects \cup {"none"} : ConnectAttr(inMesh)
    \/ \E short \in {0, 1} : SetAttr(short)
    \/ \E plug \in {"volume", "area"} : GetAttr(plug)

Spec == Init /\ [][Next]_vars

\* the measurements alone, over every shape: calculate called from a
\* script, and the command without construction history
InitCalc ==
    /\ shape \in Shapes
    /\ translate = Origin
    /\ meshInfo = NoNode
    /\ last = [op |-> "init"]
    /\ call = NoCall
    /\ result = NoResult
    /\ got = NoRead

NextCalc ==
    \/ \E t \in Translations : Move(t)
    \/ \E o \in Objects, space \in {kObject, kWorld},
          calculateVolume \in BOOLEAN, calculateArea \in BOOLEAN :
            Calculate(o, space, calculateVolume, calculateArea)
    \/ \E i \in {x \in Invocations : x.constructionHistory # "true"} :
            doIt(i.parseOk, i.selection, i.worldSpace, i.constructionHistory)

SpecCalc == InitCalc /\ [][NextCalc]_vars

----------------------------------------------------------------------------
(* What the properties speak of *)

\* the directed edges of a mesh, face by face
FaceEdges(face) ==
    [i \in 1..Len(face) |-> <<face[i], face[(i % Len(face)) + 1]>>]

EdgeCount(m, e) ==
    Sum([f \in 1..Len(m.faces) |->
            Cardinality({i \in 1..Len(m.faces[f]) :
                            FaceEdges(m.faces[f])[i] = e})])

\* closed and consistently oriented: every directed edge lies in one face
\* and its opposite in one other
IsClosed(m) ==
    \A f \in 1..Len(m.faces) : \A i \in 1..Len(m.faces[f]) :
        LET e == FaceEdges(m.faces[f])[i]
        IN  /\ EdgeCount(m, e) = 1
            /\ EdgeCount(m, <<e[2], e[1]>>) = 1

AllTriangles(m) == \A f \in 1..Len(m.faces) : Len(m.faces[f]) = 3

\* for a convex mesh: no vertex lies on the outer side of a face
IsOutward(m) ==
    \A f \in 1..Len(m.faces) : \A v \in 1..Len(m.points) :
        LET a == m.points[m.faces[f][1]]
            n == TriangleNormal(<<a, m.points[m.faces[f][2]],
                                  m.points[m.faces[f][3]]>>)
        IN  Dot(n, VSub(m.points[v], a)) <= 0

\* the geometry the last call of calculate was given
CallObj == DagPath(call.obj)

\* the same object with every face's winding reversed
CallObjReversed ==
    Geometry(MeshOf(Flip(ShapeOf(call.obj))), TranslateOf(call.obj))

\* the same object before its translation
CallObjUntranslated == Geometry(MeshOf(ShapeOf(call.obj)), Origin)

\* the 2D shoelace formula on X and Y: twice the signed area
Shoelace(t) ==
    t[1][1] * (t[2][2] - t[3][2])
    + t[2][1] * (t[3][2] - t[1][2])
    + t[3][1] * (t[1][2] - t[2][2])

\* the sum over every triangle of every face of W(triangle, face normal)
TriangleSum(obj, space, W(_, _)) ==
    Sum([f \in 1..NumFaces(obj) |->
            Sum([k \in 1..numTriangles(obj, f) |->
                    W(getTriangle(obj, f, k - 1, space),
                      getNormal(obj, f, space))])])

ZSum(t) == t[1][3] + t[2][3] + t[3][3]

NormalSign(normal) == IF normal[3] < 0 THEN 0 - 1 ELSE 1

SignedPrism(t, normal) == NormalSign(normal) * ZSum(t) * Shoelace(t)

UnsignedPrism(t, normal) == NormalSign(normal) * ZSum(t) * Abs(Shoelace(t))

Tetrahedron(t, normal) == Det3(t[1], t[2], t[3])

HasLevelNormal(obj, space) ==
    \E f \in 1..NumFaces(obj) : getNormal(obj, f, space)[3] = 0

\* what calculate gives for a node's current inMesh and space
Current(node, plug) ==
    IF node.inMesh \in Objects
    THEN LET ret == calculate(DagPath(node.inMesh),
                              IF node.space = 0 THEN kObject ELSE kWorld,
                              TRUE, TRUE)
         IN  IF plug = "volume" THEN ret.volume ELSE ret.area
    ELSE 0

----------------------------------------------------------------------------
(* The properties *)

\* C1: a call of calculate with calculateVolume=False returns volume 0 and
\* fetches no normal and no triangle; a call with calculateArea=False
\* returns area 0 and fetches no face area; the command without
\* construction history calls it with calculateArea=False.
C1_SkippedQuantityDoesNoWork ==
    call.made =>
        /\ ~call.calculateVolume =>
              /\ call.ret.volume = 0
              /\ call.ret.normalFetches = 0
              /\ call.ret.triangleFetches = 0
        /\ ~call.calculateArea =>
              /\ call.ret.area = 0
              /\ call.ret.areaFetches = 0
        /\ call.by = "doIt" =>
              /\ ~call.calculateArea
              /\ call.ret.areaFetches = 0

C1_Witness ==
    /\ call.made
    /\ call.by = "doIt"
    /\ call.ret.volume # 0
    /\ call.ret.triangleFetches > 0
    /\ call.ret.areaFetches = 0

\* C2: for the unit cube at the origin, calculate with both quantities
\* returns volume 1 and area 6, in object space and in world space.
C2_UnitCube ==
    (/\ call.made
     /\ call.calculateVolume
     /\ call.calculateArea
     /\ ShapeOf(call.obj) = [base |-> "cube", reversed |-> FALSE]
     /\ TranslateOf(call.obj) = Origin)
    => /\ call.ret.volume = 1 * VolumeDen
       /\ call.ret.area = 6 * AreaDen

C2_Witness ==
    /\ call.made
    /\ call.obj = "pCube1"
    /\ call.space = kObject
    /\ call.calculateVolume
    /\ call.calculateArea
    /\ call.ret.volume = VolumeDen
    /\ call.ret.area = 6 * AreaDen

\* C3: for a closed, consistently oriented mesh, calculate on the
\* translated mesh returns the volume and the area it returns on the mesh
\* before the translation.
C3_TranslationInvariant ==
    (call.made /\ IsClosed(CallObj.mesh))
    => LET before == calculate(CallObjUntranslated, kWorld,
                               call.calculateVolume, call.calculateArea)
       IN  /\ call.ret.volume = before.volume
           /\ call.ret.area = before.area

C3_Witness ==
    /\ call.made
    /\ call.space = kWorld
    /\ call.obj = "pSolid1"
    /\ translate[3] # 0
    /\ IsClosed(CallObj.mesh)
    /\ call.calculateVolume
    /\ call.calculateArea
    /\ call.ret.volume # 0

\* C4: reversing the winding of every face negates the volume calculate
\* returns and leaves the area it returns unchanged, faces whose normal
\* has Z = 0 included.
C4_ReversedWinding ==
    call.made
    => LET reversed == calculate(CallObjReversed, call.space,
                                 call.calculateVolume, call.calculateArea)
       IN  /\ reversed.volume = 0 - call.ret.volume
           /\ reversed.area = call.ret.area

C4_Witness ==
    /\ call.made
    /\ call.calculateVolume
    /\ call.calculateArea
    /\ call.ret.volume # 0
    /\ HasLevelNormal(CallObj, call.space)

\* C8 as stated: the volume is the sum over the triangles of
\* (z1 + z2 + z3)/3 times the signed shoelace area, the sign flipped when
\* the face normal's Z is negative.
C8_SignedShoelace ==
    (call.made /\ call.calculateVolume)
    => call.ret.volume = TriangleSum(CallObj, call.space, SignedPrism)

\* C8: the volume is the sum over the triangles of (z1 + z2 + z3)/3 times
\* the absolute value of the shoelace area, the sign flipped when the face
\* normal's Z is negative and kept otherwise.
C8_UnsignedShoelace ==
    (call.made /\ call.calculateVolume)
    => call.ret.volume = TriangleSum(CallObj, call.space, UnsignedPrism)

C8_Witness ==
    /\ call.made
    /\ call.calculateVolume
    /\ call.ret.volume # 0
    /\ \E f \in 1..NumFaces(CallObj) :
          getNormal(CallObj, f, call.space)[3] < 0
    /\ HasLevelNormal(CallObj, call.space)

\* C9: for a closed mesh of triangular faces with outward normals, the
\* volume calculate returns is the enclosed volume, the sum of the
\* triangles' det[p1, p2, p3]/6, wherever the mesh lies along Z.
C9_EnclosedVolume ==
    (/\ call.made
     /\ call.calculateVolume
     /\ AllTriangles(CallObj.mesh)
     /\ IsClosed(CallObj.mesh)
     /\ IsOutward(CallObj.mesh))
    => call.ret.volume = TriangleSum(CallObj, call.space, Tetrahedron)

C9_Witness ==
    /\ call.made
    /\ call.calculateVolume
    /\ call.space = kWorld
    /\ call.obj = "pSolid1"
    /\ translate[3] < 0
    /\ AllTriangles(CallObj.mesh)
    /\ IsClosed(CallObj.mesh)
    /\ IsOutward(CallObj.mesh)
    /\ call.ret.volume > 0

\* C5: when compute runs on a node whose inMesh holds no mesh, calculate
\* is not called and both outputs are set to 0.
C5_NoMeshGivesZero ==
    (/\ last.op = "getAttr"
     /\ last.computed
     /\ HandleType(meshInfo.inMesh) # "kMesh")
    => /\ ~call.made
       /\ meshInfo.volume = 0
       /\ meshInfo.area = 0

C5_Witness ==
    /\ last.op = "getAttr"
    /\ last.computed
    /\ ~last.zeroBefore
    /\ meshInfo.inMesh = "none"
    /\ meshInfo.volume = 0
    /\ meshInfo.area = 0

\* C6: doIt on an empty selection ends with RuntimeError and on more than
\* one object with TypeError, with no call of calculate, no node created
\* or connected and no result set; doIt calls calculate only with exactly
\* one object selected.
C6_SelectionRejected ==
    [][/\ (last'.op = "doIt" /\ last'.parseOk /\ last'.objects # 1)
          => /\ result'.kind = IF last'.objects = 0
                               THEN "RuntimeError" ELSE "TypeError"
             /\ ~result'.set
             /\ ~call'.made
             /\ meshInfo' = meshInfo
       /\ (last'.op = "doIt" /\ call'.made) => last'.objects = 1
      ]_vars

C6_Witness ==
    /\ last.op = "doIt"
    /\ last.parseOk
    /\ last.objects = 2
    /\ result.kind = "TypeError"
    /\ meshInfo.exists

\* C7: every read of an output returns what calculate gives for the
\* node's current inMesh and space; a change of either input leaves both
\* outputs dirty, and an output that is not dirty holds the current value.
C7_ReadsAreCurrent ==
    /\ got.made => got.value = Current(meshInfo, got.plug)
    /\ last.op \in {"setAttr", "connectAttr"}
          => /\ meshInfo.dirtyVolume
             /\ meshInfo.dirtyArea
    /\ meshInfo.exists =>
          /\ ~meshInfo.dirtyVolume => meshInfo.volume = Current(meshInfo, "volume")
          /\ ~meshInfo.dirtyArea => meshInfo.area = Current(meshInfo, "area")

C7_Witness ==
    /\ got.made
    /\ got.plug = "volume"
    /\ last.computed
    /\ ~last.zeroBefore
    /\ meshInfo.space = 0
    /\ meshInfo.inMesh = "pSolid1"
    /\ translate[3] # 0
    /\ got.value # 0
    /\ got.value # calculate(DagPath("pSolid1"), kWorld, TRUE, TRUE).volume

\* C10: for each value of the worldSpace flag, the selector compute passes
\* to calculate for the node the command made equals the selector the
\* command passes to calculate itself: world space for the flag unset or
\* true, object space for false; a node made by createNode uses world space.
C10_SameSpaceOnBothPaths ==
    LET Direct(flag) == CommandSpaceMapping(SpaceBool(flag))
        Claimed(flag) == IF flag = "false" THEN kObject ELSE kWorld
    IN  /\ (call.made /\ call.by = "doIt")
              => /\ call.space = Direct(last.worldSpace)
                 /\ call.space = Claimed(last.worldSpace)
        /\ (call.made /\ call.by = "compute")
              => LET setBy == meshInfo.setBy
                 IN  /\ setBy \in Flags
                        => /\ call.space = Direct(setBy)
                           /\ call.space = Claimed(setBy)
                     /\ setBy = "createNode" => call.space = kWorld

C10_Witness ==
    /\ call.made
    /\ call.by = "compute"
    /\ meshInfo.setBy = "false"
    /\ call.space = kObject

====
